---- MODULE Spec2Model ----
(***************************************************************************)
(* Polaris music-library indexer (src/src/index.rs, src/src/utils.rs):     *)
(* the command loop, the reconciler (clean), the index builder (populate)  *)
(* and the read queries, over a small filesystem and catalog.              *)
(*                                                                         *)
(* Strings are sequences of one-character strings; a path is the string it *)
(* is stored as, split into components where the code works on Path.       *)
(* Option<T> is <<>> (None) or <<v>> (Some(v)).                            *)
(***************************************************************************)
EXTENDS Integers, Sequences, FiniteSets, TLC

\* ------------------------------------------------------------------ bounds
\* Model value of INDEX_BUILDING_INSERT_BUFFER_SIZE (1000 in index.rs:29).
INDEX_BUILDING_INSERT_BUFFER_SIZE == 1
\* Model value of INDEX_BUILDING_CLEAN_BUFFER_SIZE (500 in index.rs:30).
INDEX_BUILDING_CLEAN_BUFFER_SIZE == 1
\* Store operations of one call that the environment may make fail
\* (0 = none fails).
MaxFaultOp == 8

\* ----------------------------------------------------------------- options
None == <<>>
Some(v) == <<v>>
IsSome(o) == o # <<>>
Ok(v) == [ok |-> TRUE, val |-> v]
Err == [ok |-> FALSE, val |-> <<>>]

\* ----------------------------------------------------------------- strings
Sep == "/"

\* Byte value of the characters the model uses.
Ord(c) ==
  CASE c = "%" -> 37 [] c = "/" -> 47
    [] c = "B" -> 66 [] c = "D" -> 68 [] c = "F" -> 70
    [] c = "a" -> 97 [] c = "b" -> 98 [] c = "c" -> 99 [] c = "d" -> 100
    [] c = "m" -> 109 [] c = "n" -> 110 [] c = "s" -> 115 [] c = "t" -> 116
    [] c = "u" -> 117 [] c = "x" -> 120
    [] OTHER -> 0

\* ASCII case folding, as SQLite's NOCASE collation and LIKE do it.
Fold(c) == IF Ord(c) >= 65 /\ Ord(c) <= 90 THEN Ord(c) + 32 ELSE Ord(c)

RECURSIVE StrLessBy(_, _, _)
\* s < t in the lexicographic order of the character keys; fold = TRUE folds case.
StrLessBy(s, t, fold) ==
  IF t = <<>> THEN FALSE
  ELSE IF s = <<>> THEN TRUE
  ELSE LET a == IF fold THEN Fold(Head(s)) ELSE Ord(Head(s))
           b == IF fold THEN Fold(Head(t)) ELSE Ord(Head(t))
       IN IF a < b THEN TRUE
          ELSE IF a > b THEN FALSE
          ELSE StrLessBy(Tail(s), Tail(t), fold)

StrLess(s, t) == StrLessBy(s, t, FALSE)
NoCaseLess(s, t) == StrLessBy(s, t, TRUE)
NoCaseEq(s, t) == ~NoCaseLess(s, t) /\ ~NoCaseLess(t, s)

\* ------------------------------------------------------------------- paths
RECURSIVE SplitFrom(_, _, _)
SplitFrom(s, i, cur) ==
  IF i > Len(s) THEN (IF cur = <<>> THEN <<>> ELSE <<cur>>)
  ELSE IF s[i] = Sep
       THEN (IF cur = <<>> THEN <<>> ELSE <<cur>>) \o SplitFrom(s, i + 1, <<>>)
       ELSE SplitFrom(s, i + 1, Append(cur, s[i]))

\* Path::components: the normal components of a path string.
components(s) == SplitFrom(s, 1, <<>>)

RECURSIVE JoinComponents(_)
JoinComponents(cs) ==
  IF cs = <<>> THEN <<>>
  ELSE IF Len(cs) = 1 THEN cs[1]
  ELSE cs[1] \o <<Sep>> \o JoinComponents(Tail(cs))

\* Path::join of a directory and one entry name.
join(dir, name) == dir \o <<Sep>> \o name

\* Path::strip_prefix: component-wise, Ok(the remaining components) or Err.
strip_prefix(path, base) ==
  LET pc == components(path)
      bc == components(base)
  IN IF Len(bc) <= Len(pc) /\ SubSeq(pc, 1, Len(bc)) = bc
     THEN Ok(SubSeq(pc, Len(bc) + 1, Len(pc)))
     ELSE Err

\* Path::file_name: the last component.
file_name(path) == LET pc == components(path) IN pc[Len(pc)]

\* The path string of the enclosing directory.
parent_of(path) == LET pc == components(path) IN JoinComponents(SubSeq(pc, 1, Len(pc) - 1))

\* --------------------------------------------------------------------- VFS
\* A VFS is the ordered mapping of mount points: a sequence of
\* [name, target] records, scanned in order.
RECURSIVE real_to_virtual_from(_, _, _)
real_to_virtual_from(vfs, i, real_path) ==
  IF i > Len(vfs) THEN Err
  ELSE LET p == strip_prefix(real_path, vfs[i].target)
       IN IF p.ok
          THEN Ok(IF p.val = <<>> THEN vfs[i].name
                  ELSE join(vfs[i].name, JoinComponents(p.val)))
          ELSE real_to_virtual_from(vfs, i + 1, real_path)

real_to_virtual(vfs, real_path) == real_to_virtual_from(vfs, 1, real_path)

RECURSIVE virtual_to_real_from(_, _, _)
virtual_to_real_from(vfs, i, virtual_path) ==
  IF i > Len(vfs) THEN Err
  ELSE LET p == strip_prefix(virtual_path, vfs[i].name)
       IN IF p.ok
          THEN Ok(IF p.val = <<>> THEN vfs[i].target
                  ELSE join(vfs[i].target, JoinComponents(p.val)))
          ELSE virtual_to_real_from(vfs, i + 1, virtual_path)

virtual_to_real(vfs, virtual_path) == virtual_to_real_from(vfs, 1, virtual_path)

get_mount_points(vfs) == [i \in 1..Len(vfs) |-> vfs[i].target]

MountNames(vfs) == {vfs[i].name : i \in 1..Len(vfs)}
MountRoots(vfs) == {vfs[i].target : i \in 1..Len(vfs)}

\* -------------------------------------------------------------- filesystem
\* A filesystem state: the directories that exist, the regular files with
\* what the tag reader returns for each (Ok(tags) or Err), the place of an
\* unreadable entry: read_dir(err_dir) yields Err as its err_at-th item
\* (err_at = 0: no entry is unreadable), and the order of enumeration: the
\* entries listed in order come first, as listed, the others after them in
\* byte order.
P_m == <<"m">>
P_md == <<"m", "/", "d">>
F_ms == <<"m", "/", "s">>
F_mdt == <<"m", "/", "d", "/", "t">>
F_mdu == <<"m", "/", "d", "/", "u">>
F_art == <<"m", "/", "d", "/", "F">>
F_mt == <<"m", "/", "t">>
F_mu == <<"m", "/", "u">>

Tags1 ==
  [track_number |-> Some(1), disc_number |-> None, title |-> Some(<<"a">>),
   artist |-> Some(<<"a">>), album_artist |-> None, year |-> Some(1),
   album |-> Some(<<"a">>), duration |-> None]
Tags2 ==
  [track_number |-> Some(2), disc_number |-> None, title |-> Some(<<"b">>),
   artist |-> Some(<<"a">>), album_artist |-> Some(<<"b">>), year |-> Some(2),
   album |-> Some(<<"b">>), duration |-> None]

\* Tag records that agree and disagree field by field.
Tags0 ==
  [track_number |-> None, disc_number |-> None, title |-> None,
   artist |-> None, album_artist |-> None, year |-> None,
   album |-> None, duration |-> None]
Tags3 ==
  [track_number |-> Some(3), disc_number |-> None, title |-> Some(<<"c">>),
   artist |-> Some(<<"b">>), album_artist |-> Some(<<"a">>), year |-> None,
   album |-> Some(<<"a">>), duration |-> None]
Tags4 ==
  [track_number |-> None, disc_number |-> None, title |-> None,
   artist |-> None, album_artist |-> None, year |-> Some(1),
   album |-> None, duration |-> None]

Exists(fsx, path) == path \in fsx.dirs \/ path \in DOMAIN fsx.files

RECURSIVE SortPaths(_)
\* The paths of a set in ascending byte order.
SortPaths(S) ==
  IF S = {} THEN <<>>
  ELSE LET least == CHOOSE p \in S : \A q \in S \ {p} : StrLess(p, q)
       IN <<least>> \o SortPaths(S \ {least})

Children(fsx, dir) ==
  {p \in fsx.dirs \cup DOMAIN fsx.files : p # dir /\ parent_of(p) = dir}

\* The entries of a directory in the order the filesystem lists them: those
\* fsx.order names first, in its order, the others in byte order.
Enumerate(kids, listed) ==
  listed \o SortPaths({p \in kids : \A i \in 1..Len(listed) : listed[i] # p})

\* The entry results of an enumeration, with the read error of dir, if it has
\* one, in its place.
EntryResults(fsx, dir, entries) ==
  IF fsx.err_at > 0 /\ fsx.err_dir = dir /\ fsx.err_at <= Len(entries) + 1
  THEN [i \in 1..(Len(entries) + 1) |->
          IF i < fsx.err_at THEN Ok(entries[i])
          ELSE IF i = fsx.err_at THEN Err
          ELSE Ok(entries[i - 1])]
  ELSE [i \in 1..Len(entries) |-> Ok(entries[i])]

\* fs::read_dir: the entries of dir, each Ok(path) or Err.
read_dir(fsx, dir) ==
  EntryResults(fsx, dir,
    Enumerate(Children(fsx, dir),
              SelectSeq(fsx.order, LAMBDA p : p \in Children(fsx, dir))))

\* metadata::read: the tags of a file, or Err when it is not a readable audio file.
metadata_read(fsx, file_path) == fsx.files[file_path]

\* Seconds since the epoch of the directory's creation time.
created_secs(fsx, path) == Len(components(path))

\* Regex::is_match of the configured album-art pattern on a bare file name.
album_art_pattern_is_match(name) == name = <<"F">>

\* ----------------------------------------------------------- catalog store
\* A table is the set of its rows (the row id is left out).  path is UNIQUE
\* with replacement on conflict: inserting a row deletes the row of the same
\* path.  The rows of one INSERT are inserted one after the other.
RECURSIVE InsertRows(_, _)
InsertRows(tbl, rows) ==
  IF rows = <<>> THEN tbl
  ELSE InsertRows({r \in tbl : r.path # Head(rows).path} \cup {Head(rows)},
                  Tail(rows))

\* DELETE ... WHERE path IN (chunk)
DeleteIn(tbl, chunk) ==
  {r \in tbl : \A i \in 1..Len(chunk) : r.path # chunk[i]}

Paths(tbl) == {r.path : r \in tbl}

\* A store operation is numbered within the call that makes it; the
\* environment picks which one (fail_at) fails, 0 for none.
StoreFails(b) == b.ops + 1 = b.fail_at
Tick(b) == [b EXCEPT !.ops = @ + 1]
Fail(b) == [b EXCEPT !.err = TRUE]

\* ----------------------------------------------------------- index builder
\* The builder with its two buffers, the tables it writes to, and, for the
\* properties only, what it has done: the rows pushed, the batches flushed
\* and the greatest length a buffer has had.
IndexBuilder_new(songs_tbl, directories_tbl, ops, fail_at) ==
  [new_songs |-> <<>>, new_directories |-> <<>>,
   songs |-> songs_tbl, directories |-> directories_tbl,
   ops |-> ops, fail_at |-> fail_at, err |-> FALSE,
   pushed_songs |-> <<>>, pushed_directories |-> <<>>,
   flushed_songs |-> <<>>, flushed_directories |-> <<>>, peak |-> 0]

\* flush_songs with an insert that aborts on a path the table already holds.
flush_songs_AbortOnConflict(b) ==
  IF StoreFails(b) THEN Fail(Tick(b))
  ELSE IF \E i \in 1..Len(b.new_songs) : b.new_songs[i].path \in Paths(b.songs)
  THEN Fail(Tick(b))
  ELSE [Tick(b) EXCEPT !.songs = InsertRows(@, b.new_songs), !.new_songs = <<>>,
                       !.flushed_songs = Append(@, b.new_songs)]

\* flush_songs that leaves the flushed rows in the buffer.
flush_songs_KeepsBuffer(b) ==
  IF StoreFails(b) THEN Fail(Tick(b))
  ELSE [Tick(b) EXCEPT !.songs = InsertRows(@, b.new_songs),
                       !.flushed_songs = Append(@, b.new_songs)]

flush_songs(b) ==
  IF StoreFails(b) THEN Fail(Tick(b))
  ELSE [Tick(b) EXCEPT !.songs = InsertRows(@, b.new_songs), !.new_songs = <<>>,
                       !.flushed_songs = Append(@, b.new_songs)]

flush_directories(b) ==
  IF StoreFails(b) THEN Fail(Tick(b))
  ELSE [Tick(b) EXCEPT !.directories = InsertRows(@, b.new_directories),
                       !.new_directories = <<>>,
                       !.flushed_directories = Append(@, b.new_directories)]

\* The rest of push_song and push_directory, once a full buffer was flushed.
BufferSong(f, song) ==
  IF f.err THEN f
  ELSE [f EXCEPT !.new_songs = Append(@, song),
                 !.pushed_songs = Append(@, song),
                 !.peak = IF Len(f.new_songs) + 1 > @
                          THEN Len(f.new_songs) + 1 ELSE @]

BufferDirectory(f, directory) ==
  IF f.err THEN f
  ELSE [f EXCEPT !.new_directories = Append(@, directory),
                 !.pushed_directories = Append(@, directory),
                 !.peak = IF Len(f.new_directories) + 1 > @
                          THEN Len(f.new_directories) + 1 ELSE @]

\* push_song that appends without looking at the length of the buffer.
push_song_NoFlush(b, song) == BufferSong(b, song)

push_song(b, song) ==
  BufferSong(IF Len(b.new_songs) >= INDEX_BUILDING_INSERT_BUFFER_SIZE
             THEN flush_songs(b) ELSE b,
             song)

push_directory(b, directory) ==
  BufferDirectory(IF Len(b.new_directories) >= INDEX_BUILDING_INSERT_BUFFER_SIZE
                  THEN flush_directories(b) ELSE b,
                  directory)

RECURSIVE get_artwork_from(_, _)
get_artwork_from(items, i) ==
  IF i > Len(items) THEN Ok(None)
  ELSE IF ~items[i].ok THEN Err
  ELSE IF album_art_pattern_is_match(file_name(items[i].val))
       THEN Ok(Some(items[i].val))
       ELSE get_artwork_from(items, i + 1)

get_artwork(fsx, dir) ==
  IF dir \in fsx.dirs THEN get_artwork_from(read_dir(fsx, dir), 1) ELSE Err

\* The directory aggregates while the entries are enumerated.
NewAggregate ==
  [directory_album |-> None, directory_year |-> None, directory_artist |-> None,
   inconsistent_directory_album |-> FALSE,
   inconsistent_directory_year |-> FALSE,
   inconsistent_directory_artist |-> FALSE]

\* AggregateStep with flags that forget an earlier disagreement.
AggregateStep_NotSticky(g, tags) ==
  LET artist == IF IsSome(tags.album_artist) THEN tags.album_artist ELSE tags.artist
  IN [directory_year |->
        IF IsSome(tags.year) THEN tags.year ELSE g.directory_year,
      inconsistent_directory_year |->
        IF IsSome(tags.year)
        THEN IsSome(g.directory_year) /\ g.directory_year # tags.year
        ELSE g.inconsistent_directory_year,
      directory_album |->
        IF IsSome(tags.album) THEN tags.album ELSE g.directory_album,
      inconsistent_directory_album |->
        IF IsSome(tags.album)
        THEN IsSome(g.directory_album) /\ g.directory_album # tags.album
        ELSE g.inconsistent_directory_album,
      directory_artist |->
        IF IsSome(artist) THEN artist ELSE g.directory_artist,
      inconsistent_directory_artist |->
        IF IsSome(artist)
        THEN IsSome(g.directory_artist) /\ g.directory_artist # artist
        ELSE g.inconsistent_directory_artist]

\* One successfully tagged song folded into the aggregates.
AggregateStep(g, tags) ==
  LET artist == IF IsSome(tags.album_artist) THEN tags.album_artist ELSE tags.artist
  IN [directory_year |->
        IF IsSome(tags.year) THEN tags.year ELSE g.directory_year,
      inconsistent_directory_year |->
        IF IsSome(tags.year)
        THEN g.inconsistent_directory_year
               \/ (IsSome(g.directory_year) /\ g.directory_year # tags.year)
        ELSE g.inconsistent_directory_year,
      directory_album |->
        IF IsSome(tags.album) THEN tags.album ELSE g.directory_album,
      inconsistent_directory_album |->
        IF IsSome(tags.album)
        THEN g.inconsistent_directory_album
               \/ (IsSome(g.directory_album) /\ g.directory_album # tags.album)
        ELSE g.inconsistent_directory_album,
      directory_artist |->
        IF IsSome(artist) THEN artist ELSE g.directory_artist,
      inconsistent_directory_artist |->
        IF IsSome(artist)
        THEN g.inconsistent_directory_artist
               \/ (IsSome(g.directory_artist) /\ g.directory_artist # artist)
        ELSE g.inconsistent_directory_artist]

\* The aggregates as the directory row gets them.
AggregateResult(g) ==
  [year |-> IF g.inconsistent_directory_year THEN None ELSE g.directory_year,
   album |-> IF g.inconsistent_directory_album THEN None ELSE g.directory_album,
   artist |-> IF g.inconsistent_directory_artist THEN None ELSE g.directory_artist]

NewSong(file_path, path_string, tags, artwork) ==
  [path |-> file_path, parent |-> path_string,
   track_number |-> tags.track_number, disc_number |-> tags.disc_number,
   title |-> tags.title, artist |-> tags.artist,
   album_artist |-> tags.album_artist, year |-> tags.year,
   album |-> tags.album, artwork |-> artwork, duration |-> tags.duration]

NewDirectory(path_string, parent_string, artwork, r, created) ==
  [path |-> path_string, parent |-> parent_string, artist |-> r.artist,
   year |-> r.year, album |-> r.album, artwork |-> artwork,
   date_added |-> created]

\* One file of the read_dir loop that is no directory: a song row when its
\* tags can be read (tags.ok), nothing otherwise.
InsertFile(acc, file_path, path_string, tags, artwork) ==
  IF ~tags.ok THEN acc
  ELSE [acc EXCEPT
          !.g = AggregateStep(@, tags.val),
          !.b = push_song(@, NewSong(file_path, path_string, tags.val, artwork))]

RECURSIVE InsertContent_SkipsUnreadable(_, _, _, _, _)
\* The loop of populate_directory passing over an entry it cannot read.
InsertContent_SkipsUnreadable(acc, fsx, items, path_string, artwork) ==
  IF items = <<>> \/ acc.b.err THEN acc
  ELSE IF ~Head(items).ok
  THEN InsertContent_SkipsUnreadable(acc, fsx, Tail(items), path_string, artwork)
  ELSE IF Head(items).val \in fsx.dirs
  THEN InsertContent_SkipsUnreadable(
         [acc EXCEPT !.sub_directories = Append(@, Head(items).val)],
         fsx, Tail(items), path_string, artwork)
  ELSE InsertContent_SkipsUnreadable(
         InsertFile(acc, Head(items).val, path_string,
                    metadata_read(fsx, Head(items).val), artwork),
         fsx, Tail(items), path_string, artwork)

RECURSIVE InsertContent(_, _, _, _, _)
\* The loop over read_dir of populate_directory; acc holds the builder, the
\* aggregates and the sub directories collected so far.  An entry that cannot
\* be read ends the loop.
InsertContent(acc, fsx, items, path_string, artwork) ==
  IF items = <<>> \/ acc.b.err \/ ~Head(items).ok THEN acc
  ELSE IF Head(items).val \in fsx.dirs
  THEN InsertContent([acc EXCEPT !.sub_directories = Append(@, Head(items).val)],
                     fsx, Tail(items), path_string, artwork)
  ELSE InsertContent(InsertFile(acc, Head(items).val, path_string,
                                metadata_read(fsx, Head(items).val), artwork),
                     fsx, Tail(items), path_string, artwork)

\* self.get_artwork(path).unwrap_or(None)
unwrap_or_None(art) == IF art.ok THEN art.val ELSE None

RECURSIVE populate_directory(_, _, _, _)
RECURSIVE PopulateSubDirectories(_, _, _, _)

\* populate_directory after its loop: the directory row, then the sub
\* directories.
InsertDirectory(acc, fsx, parent, path, artwork) ==
  IF acc.b.err THEN acc.b
  ELSE PopulateSubDirectories(
         push_directory(acc.b,
                        NewDirectory(path, parent, artwork,
                                     AggregateResult(acc.g),
                                     created_secs(fsx, path))),
         fsx, path, acc.sub_directories)

\* populate_directory from its loop on, the artwork found.
PopulateContent(b, fsx, parent, path, artwork) ==
  InsertDirectory(
    InsertContent([b |-> b, g |-> NewAggregate, sub_directories |-> <<>>],
                  fsx, read_dir(fsx, path), path, artwork),
    fsx, parent, path, artwork)

populate_directory(b, fsx, parent, path) ==
  IF path \notin fsx.dirs THEN Fail(b)
  ELSE PopulateContent(b, fsx, parent, path,
                       unwrap_or_None(get_artwork(fsx, path)))

PopulateSubDirectories(b, fsx, path, sub_directories) ==
  IF sub_directories = <<>> \/ b.err THEN b
  ELSE PopulateSubDirectories(
         populate_directory(b, fsx, Some(path), Head(sub_directories)),
         fsx, path, Tail(sub_directories))

RECURSIVE PopulateMounts(_, _, _)
PopulateMounts(b, fsx, targets) ==
  IF targets = <<>> \/ b.err THEN b
  ELSE PopulateMounts(populate_directory(b, fsx, None, Head(targets)),
                      fsx, Tail(targets))

\* The end of populate: builder.flush_songs()?; builder.flush_directories()?
FlushDirectories(b) == IF b.err THEN b ELSE flush_directories(b)
FlushBoth(b) == IF b.err THEN b ELSE FlushDirectories(flush_songs(b))

\* populate with its builder b0, two store operations (get_vfs and the
\* settings fetch) before the walk.
PopulateWith(b0, fsx, vfs) ==
  IF StoreFails(b0) THEN Fail(Tick(b0))
  ELSE IF StoreFails(Tick(b0)) THEN Fail(Tick(Tick(b0)))
  ELSE FlushBoth(PopulateMounts(Tick(Tick(b0)), fsx, get_mount_points(vfs)))

\* populate: get_vfs and the settings fetch are store operations; then every
\* mount point is walked and both buffers are flushed.
populate(songs_tbl, directories_tbl, fsx, vfs, fail_at) ==
  PopulateWith(IndexBuilder_new(songs_tbl, directories_tbl, 0, fail_at), fsx, vfs)

\* -------------------------------------------------------------- reconciler
RECURSIVE chunks(_, _)
chunks(s, n) ==
  IF s = <<>> THEN <<>>
  ELSE IF Len(s) <= n THEN <<s>>
  ELSE <<SubSeq(s, 1, n)>> \o chunks(SubSeq(s, n + 1, Len(s)), n)

\* The filter of clean: the path is gone or no mount point holds it.
IsMissing(fsx, vfs, path) == ~Exists(fsx, path) \/ ~real_to_virtual(vfs, path).ok

MissingPaths(tbl, fsx, vfs) ==
  SelectSeq(SortPaths(Paths(tbl)), LAMBDA p : IsMissing(fsx, vfs, p))

\* DeleteChunks that stops after the first chunk.
DeleteChunks_FirstOnly(c, cs) ==
  IF cs = <<>> \/ c.err THEN c
  ELSE IF StoreFails(c) THEN Fail(Tick(c))
  ELSE [Tick(c) EXCEPT !.tbl = DeleteIn(@, Head(cs))]

RECURSIVE DeleteChunks(_, _)
\* One DELETE per chunk; c = [tbl, ops, fail_at, err].
DeleteChunks(c, cs) ==
  IF cs = <<>> \/ c.err THEN c
  ELSE IF StoreFails(c) THEN Fail(Tick(c))
  ELSE DeleteChunks([Tick(c) EXCEPT !.tbl = DeleteIn(@, Head(cs))], Tail(cs))

\* One pass of clean over a table, c0 = [tbl, ops, fail_at, err]: load the
\* paths, filter, delete by chunks.
CleanTable(c0, fsx, vfs) ==
  IF StoreFails(c0) THEN Fail(Tick(c0))
  ELSE DeleteChunks(Tick(c0),
                    chunks(MissingPaths(c0.tbl, fsx, vfs),
                           INDEX_BUILDING_CLEAN_BUFFER_SIZE))

\* clean once the songs are done (s), then the directories (d).
CleanResult(s, d) == [songs |-> s.tbl, directories |-> d.tbl, err |-> d.err]
CleanDirectories(s, directories_tbl, fsx, vfs) ==
  IF s.err
  THEN [songs |-> s.tbl, directories |-> directories_tbl, err |-> TRUE]
  ELSE CleanResult(s, CleanTable([s EXCEPT !.tbl = directories_tbl], fsx, vfs))

clean(songs_tbl, directories_tbl, fsx, vfs, fail_at) ==
  IF fail_at = 1
  THEN [songs |-> songs_tbl, directories |-> directories_tbl, err |-> TRUE]
  ELSE CleanDirectories(
         CleanTable([tbl |-> songs_tbl, ops |-> 1, fail_at |-> fail_at,
                     err |-> FALSE], fsx, vfs),
         directories_tbl, fsx, vfs)

\* ------------------------------------------------------------ read queries
\* SQLite LIKE: % matches any run of characters, _ any one character, the
\* other characters match case-insensitively (ASCII).
RECURSIVE Like(_, _)
Like(s, pattern) ==
  IF pattern = <<>> THEN s = <<>>
  ELSE IF Head(pattern) = "%"
       THEN Like(s, Tail(pattern)) \/ (s # <<>> /\ Like(Tail(s), pattern))
  ELSE IF Head(pattern) = "_"
       THEN s # <<>> /\ Like(Tail(s), Tail(pattern))
  ELSE s # <<>> /\ Fold(Head(s)) = Fold(Head(pattern))
         /\ Like(Tail(s), Tail(pattern))

\* SQL's three truth values: a comparison with NULL is NULL, and a filter
\* keeps the rows whose predicate is true.
SqlLike(column, pattern) ==
  IF column = None THEN "null"
  ELSE IF Like(column[1], pattern) THEN "true" ELSE "false"
SqlNot(x) == IF x = "null" THEN "null" ELSE IF x = "true" THEN "false" ELSE "true"
SqlOr(x, y) ==
  IF x = "true" \/ y = "true" THEN "true"
  ELSE IF x = "null" \/ y = "null" THEN "null" ELSE "false"

\* The ORDER BY clauses of the queries: r sorts before q.
ByPath(r, q) == StrLess(r.path, q.path)
ByPathNoCase(r, q) == NoCaseLess(r.path, q.path)
ByDateAddedDesc(r, q) == r.date_added > q.date_added
Before(order, r, q) ==
  CASE order = "path" -> ByPath(r, q)
    [] order = "path COLLATE NOCASE ASC" -> ByPathNoCase(r, q)
    [] order = "date_added DESC" -> ByDateAddedDesc(r, q)

RECURSIVE OrderBy(_, _)
\* The rows of a set in the given order; rows the order does not separate
\* come in byte order of path.
OrderBy(S, order) ==
  IF S = {} THEN <<>>
  ELSE LET least == CHOOSE r \in S : \A q \in S \ {r} :
                      \/ Before(order, r, q)
                      \/ (~Before(order, q, r) /\ StrLess(r.path, q.path))
       IN <<least>> \o OrderBy(S \ {least}, order)

\* A load without ORDER BY: SQL leaves the order open; the model takes the
\* order of path.
Load(S) == OrderBy(S, "path")

\* The artwork column translated, None when it does not translate.
VirtualArtwork(v, artwork) ==
  IF artwork = None THEN None
  ELSE IF real_to_virtual(v, artwork[1]).ok
  THEN Some(real_to_virtual(v, artwork[1]).val)
  ELSE None

\* The row with its translated path p (p.ok) and its artwork translated.
Virtualized(v, row, p) ==
  Some([row EXCEPT !.path = p.val, !.artwork = VirtualArtwork(v, @)])

virtualize_song(v, song) ==
  IF ~real_to_virtual(v, song.path).ok THEN None
  ELSE Virtualized(v, song, real_to_virtual(v, song.path))

\* virtualize_directory that keeps a row whose path does not translate.
virtualize_directory_KeepsReal(v, directory) ==
  IF ~real_to_virtual(v, directory.path).ok
  THEN Some([directory EXCEPT !.artwork = VirtualArtwork(v, @)])
  ELSE Virtualized(v, directory, real_to_virtual(v, directory.path))

virtualize_directory(v, directory) ==
  IF ~real_to_virtual(v, directory.path).ok THEN None
  ELSE Virtualized(v, directory, real_to_virtual(v, directory.path))

CollectionFile(kind, row) == [kind |-> kind, row |-> row]

RECURSIVE VirtualizeAll(_, _)
\* into_iter().filter_map(virtualize_...) over loaded rows, each wrapped as
\* a CollectionFile.
VirtualizeAll(v, files) ==
  IF files = <<>> THEN <<>>
  ELSE LET f == Head(files)
           o == IF f.kind = "Song" THEN virtualize_song(v, f.row)
                ELSE virtualize_directory(v, f.row)
       IN (IF o = None THEN <<>> ELSE <<CollectionFile(f.kind, o[1])>>)
            \o VirtualizeAll(v, Tail(files))

AsFiles(kind, rows) == [i \in 1..Len(rows) |-> CollectionFile(kind, rows[i])]

\* What a query returns: the rows on Ok, and why not on Err ("store": the
\* store failed the load, "mount": virtual_to_real failed).  loaded keeps the
\* real rows the store returned.
QueryOk(op, arg, v, loaded) ==
  [op |-> op, arg |-> arg, ok |-> TRUE, err |-> "", loaded |-> loaded,
   rows |-> VirtualizeAll(v, loaded)]
QueryErr(op, arg, why) ==
  [op |-> op, arg |-> arg, ok |-> FALSE, err |-> why, loaded |-> <<>>,
   rows |-> <<>>]
NoResult == QueryErr("none", <<>>, "")

browse(s, d, v, virtual_path, fault) ==
  IF fault THEN QueryErr("browse", virtual_path, "store")
  ELSE IF Len(components(virtual_path)) = 0
  THEN QueryOk("browse", virtual_path, v,
               AsFiles("Directory", Load({r \in d : r.parent = None})))
  ELSE LET real_path == virtual_to_real(v, virtual_path)
       IN IF ~real_path.ok THEN QueryErr("browse", virtual_path, "mount")
          ELSE QueryOk("browse", virtual_path, v,
                 AsFiles("Directory",
                         OrderBy({r \in d : r.parent = Some(real_path.val)},
                                 "path COLLATE NOCASE ASC"))
                   \o AsFiles("Song",
                              OrderBy({r \in s : r.parent = real_path.val},
                                      "path COLLATE NOCASE ASC")))

flatten(s, d, v, virtual_path, fault) ==
  IF fault THEN QueryErr("flatten", virtual_path, "store")
  ELSE IF Len(components(virtual_path)) # 0
  THEN LET real_path == virtual_to_real(v, virtual_path)
       IN IF ~real_path.ok THEN QueryErr("flatten", virtual_path, "mount")
          ELSE QueryOk("flatten", virtual_path, v,
                 AsFiles("Song",
                         OrderBy({r \in s : Like(r.path, real_path.val \o <<"%">>)},
                                 "path")))
  ELSE QueryOk("flatten", virtual_path, v, AsFiles("Song", OrderBy(s, "path")))

\* The outcomes of ORDER BY RANDOM() LIMIT count over the albums: every
\* sequence of min(count, number of albums) distinct rows.
RandomPicks(d, count) ==
  LET albums == {r \in d : r.album # None}
      k == IF Cardinality(albums) < count THEN Cardinality(albums) ELSE count
  IN {q \in [1..k -> albums] : \A i, j \in 1..k : q[i] = q[j] => i = j}

get_random_albums(s, d, v, count, picked, fault) ==
  IF fault THEN QueryErr("get_random_albums", count, "store")
  ELSE QueryOk("get_random_albums", count, v, AsFiles("Directory", picked))

get_recent_albums(s, d, v, count, fault) ==
  IF fault THEN QueryErr("get_recent_albums", count, "store")
  ELSE LET recent == OrderBy({r \in d : r.album # None}, "date_added DESC")
       IN QueryOk("get_recent_albums", count, v,
                  AsFiles("Directory",
                          SubSeq(recent, 1,
                                 IF Len(recent) < count THEN Len(recent) ELSE count)))

search(s, d, v, query, fault) ==
  IF fault THEN QueryErr("search", query, "store")
  ELSE LET like_test == <<"%">> \o query \o <<"%">>
           real_directories ==
             {r \in d : /\ SqlLike(Some(r.path), like_test) = "true"
                        /\ SqlNot(SqlLike(r.parent, like_test)) = "true"}
           real_songs ==
             {r \in s :
                /\ SqlOr(SqlLike(Some(r.path), like_test),
                     SqlOr(SqlLike(r.title, like_test),
                       SqlOr(SqlLike(r.album, like_test),
                         SqlOr(SqlLike(r.artist, like_test),
                               SqlLike(r.album_artist, like_test))))) = "true"
                /\ SqlNot(SqlLike(Some(r.parent), like_test)) = "true"}
       IN QueryOk("search", query, v,
                  AsFiles("Directory", Load(real_directories))
                    \o AsFiles("Song", Load(real_songs)))

\* get_song once the path is translated: the first row of songs at the real
\* path (get_result fails when there is none), virtualized, and "Missing VFS
\* mapping" when it does not virtualize.
SongAt(s, v, virtual_path, real_path) ==
  IF {r \in s : r.path = real_path} = {}
  THEN QueryErr("get_song", virtual_path, "missing")
  ELSE IF virtualize_song(v, Load({r \in s : r.path = real_path})[1]) = None
  THEN QueryErr("get_song", virtual_path, "mapping")
  ELSE QueryOk("get_song", virtual_path, v,
               AsFiles("Song", SubSeq(Load({r \in s : r.path = real_path}), 1, 1)))

\* get_song that answers a missing row with the first song of the table.
get_song_AnyRow(s, d, v, virtual_path, fault) ==
  IF fault = 1 THEN QueryErr("get_song", virtual_path, "store")
  ELSE IF ~virtual_to_real(v, virtual_path).ok
  THEN QueryErr("get_song", virtual_path, "mount")
  ELSE IF fault = 2 THEN QueryErr("get_song", virtual_path, "store")
  ELSE IF s # {} /\ {r \in s : r.path = virtual_to_real(v, virtual_path).val} = {}
  THEN QueryOk("get_song", virtual_path, v, AsFiles("Song", SubSeq(Load(s), 1, 1)))
  ELSE SongAt(s, v, virtual_path, virtual_to_real(v, virtual_path).val)

\* get_song: fault = 1 fails get_vfs, fault = 2 fails the select, 0 neither.
get_song(s, d, v, virtual_path, fault) ==
  IF fault = 1 THEN QueryErr("get_song", virtual_path, "store")
  ELSE IF ~virtual_to_real(v, virtual_path).ok
  THEN QueryErr("get_song", virtual_path, "mount")
  ELSE IF fault = 2 THEN QueryErr("get_song", virtual_path, "store")
  ELSE SongAt(s, v, virtual_path, virtual_to_real(v, virtual_path).val)

\* ------------------------------------------------------------- environment
\* The filesystems of the model: m and m/d may exist; m/s, m/d/t and m/d/u
\* are audio files when present; m/d/F is a cover image (no tags, matches
\* the album-art pattern) present whenever m/d is.
FilesOf(d, s, t, u) ==
  LET dom == (IF d >= 1 /\ s = 1 THEN {F_ms} ELSE {})
               \cup (IF d = 2 THEN {F_art} ELSE {})
               \cup (IF d = 2 /\ t = 1 THEN {F_mdt} ELSE {})
               \cup (IF d = 2 /\ u = 1 THEN {F_mdu} ELSE {})
  IN [p \in dom |->
        IF p = F_art THEN Err ELSE IF p = F_mdu THEN Ok(Tags2) ELSE Ok(Tags1)]

FsOf(d, s, t, u, e) ==
  [dirs |-> IF d = 0 THEN {} ELSE IF d = 1 THEN {P_m} ELSE {P_m, P_md},
   files |-> FilesOf(d, s, t, u),
   err_dir |-> P_m, err_at |-> e, order |-> <<>>]

FsUniverse ==
  {FsOf(0, 0, 0, 0, 0)}
    \cup {FsOf(2, s, t, 0, e) : s \in 0..1, t \in 0..1, e \in 0..1}

Mount(n, t) == [name |-> n, target |-> t]
N_a == <<"a">>
N_b == <<"b">>

\* The mount configurations of the model, nested mount roots included.
VfsUniverse ==
  { <<Mount(N_a, P_m)>>, <<Mount(N_a, P_md)>>,
    <<Mount(N_a, P_m), Mount(N_b, P_md)>>,
    <<Mount(N_a, P_md), Mount(N_b, P_m)>> }

\* ------------------------------------------------------------------- state
VARIABLES
  fs,           \* the filesystem
  vfs,          \* the mount configuration db.get_vfs() returns
  songs,        \* the songs table
  directories,  \* the directories table
  pc,           \* the update worker: "idle" (in recv, or no call running),
                \* "drain", "clean", "populate", "exited"
  queue,        \* the command channel: the commands sent and not received
  senders,      \* TRUE while a CommandSender is alive (the channel is open)
  trigger,      \* the self-trigger worker: "off" (not spawned), "trigger",
                \* "sleep", "exited"
  h,            \* history of the scans, read by the properties only
  result,       \* what the last read query returned, forgotten once the
                \* catalog or the mounts it was answered from change
  connection    \* the Mutex<SqliteConnection> all threads share: the threads
                \* holding its guard and the transaction open on it

vars ==
  <<fs, vfs, songs, directories, pc, queue, senders, trigger, h, result,
    connection>>

\* The connection with no guard out and no transaction open.
NoConnection == [holders |-> {}, table |-> "none", batch |-> <<>>, before |-> {}]

Scanning == pc \in {"clean", "populate"}

NoHistory ==
  [result |-> "none",    \* how the last update returned: "ok", "err" (an
                         \* error of the walk), "fault" (a store operation was
                         \* made to fail); "none" before any update, while one
                         \* runs, and once the environment changed since the
                         \* last one began
   changed |-> FALSE,    \* the environment changed since the running update began
   twice |-> FALSE,      \* the last update began right after an Ok one, the
                         \* environment unchanged since that one began
   same |-> FALSE,       \* the last update left the row counts as it found them
   before |-> <<0, 0>>,  \* the row counts when the running update began
   stale |-> 0,          \* the song rows the clean that just returned deleted
   cleaned |-> FALSE,    \* clean has returned Ok and nothing changed since
   active |-> 0,         \* scans in progress
   burst |-> 0,          \* Reindex commands sent during the running scan
   n |-> 0,              \* N >= 1: the last scan to end had N Reindex sent
                         \* during it, no Exit was ever sent, the channel is
                         \* open and no command was sent after that scan ended
   further |-> 0,        \* while n >= 1: the scans started since that scan ended
   exit_sent |-> FALSE,  \* exit() has enqueued an Exit
   exit_taken |-> FALSE] \* the update loop has received an Exit

InitIndex ==
  /\ fs \in FsUniverse
  /\ vfs \in VfsUniverse
  /\ songs = {}
  /\ directories = {}
  /\ pc = "idle"
  /\ queue = <<>>
  /\ senders = TRUE
  /\ trigger = "off"
  /\ h = NoHistory
  /\ result = NoResult
  /\ connection = NoConnection

EnvChanged(hh) ==
  IF Scanning
  THEN [hh EXCEPT !.changed = TRUE, !.cleaned = FALSE, !.stale = 0]
  ELSE [hh EXCEPT !.result = "none", !.twice = FALSE, !.same = FALSE]

\* The filesystem changes (files and directories appear or vanish, an entry
\* becomes unreadable).
FsChange ==
  /\ \E f \in FsUniverse \ {fs} : fs' = f
  /\ h' = EnvChanged(h)
  /\ UNCHANGED <<connection, result, vfs, songs, directories, pc, queue, senders, trigger>>

\* The mount configuration is edited.
VfsChange ==
  /\ \E v \in VfsUniverse \ {vfs} : vfs' = v
  /\ h' = EnvChanged(h)
  /\ result' = NoResult
  /\ UNCHANGED <<connection, fs, songs, directories, pc, queue, senders, trigger>>

\* update is entered: "Beginning library index update".
BeginUpdate(hh) ==
  [hh EXCEPT !.twice = (hh.result = "ok"),
             !.result = "none",
             !.changed = FALSE,
             !.same = FALSE,
             !.before = <<Cardinality(songs), Cardinality(directories)>>,
             !.active = @ + 1,
             !.burst = 0,
             !.further = IF hh.n >= 1 THEN @ + 1 ELSE 0]

\* update returns r, leaving the tables s and d.
EndUpdate(hh, r, s, d) ==
  [hh EXCEPT !.result = IF hh.changed THEN "none" ELSE r,
             !.twice = hh.twice /\ ~hh.changed,
             !.same = ~hh.changed /\ hh.before = <<Cardinality(s), Cardinality(d)>>,
             !.changed = FALSE,
             !.before = <<0, 0>>,
             !.stale = 0,
             !.cleaned = FALSE,
             !.active = @ - 1,
             !.burst = 0,
             !.n = IF hh.burst >= 1 /\ ~hh.exit_sent /\ senders
                   THEN hh.burst ELSE hh.n,
             !.further = IF hh.burst >= 1 /\ ~hh.exit_sent /\ senders
                         THEN 0 ELSE hh.further]

\* A direct call of update(db), as the tests make it.
UpdateCall ==
  /\ pc = "idle"
  /\ pc' = "clean"
  /\ h' = BeginUpdate(h)
  /\ UNCHANGED <<connection, result, fs, vfs, songs, directories, queue, senders, trigger>>

\* update with clean's error dropped: populate runs whatever clean returned.
CleanStep_ErrorDropped ==
  /\ pc = "clean"
  /\ \E fail_at \in 0..MaxFaultOp :
     \E c \in {clean(songs, directories, fs, vfs, fail_at)} :
          /\ songs' = c.songs
          /\ directories' = c.directories
          /\ pc' = "populate"
          /\ h' = [h EXCEPT !.cleaned = ~c.err,
                            !.stale = Len(MissingPaths(songs, fs, vfs))]
  /\ result' = NoResult
  /\ UNCHANGED <<connection, fs, vfs, queue, senders, trigger>>

\* update, first half: clean(db)?
CleanStep ==
  /\ pc = "clean"
  /\ \E fail_at \in 0..MaxFaultOp :
     \E c \in {clean(songs, directories, fs, vfs, fail_at)} :
          /\ songs' = c.songs
          /\ directories' = c.directories
          /\ pc' = IF c.err THEN "idle" ELSE "populate"
          /\ h' = IF c.err
                  THEN EndUpdate(h, "fault", c.songs, c.directories)
                  ELSE [h EXCEPT
                          !.cleaned = TRUE,
                          !.stale = Len(MissingPaths(songs, fs, vfs))]
  /\ result' = NoResult
  /\ UNCHANGED <<connection, fs, vfs, queue, senders, trigger>>

\* update, second half: populate(db)?
PopulateStep ==
  /\ pc = "populate"
  /\ \E fail_at \in 0..MaxFaultOp :
     \E b \in {populate(songs, directories, fs, vfs, fail_at)} :
          /\ songs' = b.songs
          /\ directories' = b.directories
          /\ h' = EndUpdate(h,
                            IF ~b.err THEN "ok"
                            ELSE IF fail_at > 0 /\ b.ops >= fail_at THEN "fault"
                            ELSE "err",
                            b.songs, b.directories)
  /\ pc' = "idle"
  /\ result' = NoResult
  /\ UNCHANGED <<connection, fs, vfs, queue, senders, trigger>>

NextIndex == FsChange \/ VfsChange \/ UpdateCall \/ CleanStep \/ PopulateStep

\* The indexer called directly while the environment changes.
SpecIndex == InitIndex /\ [][NextIndex]_vars

\* ------------------------------------------------------------ command loop
MaxQueue == 3

\* init: the channel is created and the update loop spawned; the catalog is
\* empty, the collection is mounted.
Init ==
  /\ fs = FsOf(2, 1, 1, 0, 0)
  /\ vfs = <<Mount(N_a, P_m)>>
  /\ songs = {}
  /\ directories = {}
  /\ pc = "idle"
  /\ queue = <<>>
  /\ senders = TRUE
  /\ trigger \in {"off", "trigger"}
  /\ h = NoHistory
  /\ result = NoResult
  /\ connection = NoConnection

\* A command was sent through the open channel.
Sent(hh, command) ==
  [hh EXCEPT !.burst = IF Scanning /\ command = "REINDEX" THEN @ + 1 ELSE @,
             !.n = 0,
             !.further = 0,
             !.exit_sent = @ \/ command = "EXIT"]

\* Sender::send: Ok while the receiver lives, Err once the loop has returned.
send(command) ==
  IF pc = "exited"
  THEN UNCHANGED <<queue, h>>
  ELSE /\ queue' = Append(queue, command)
       /\ h' = Sent(h, command)

\* CommandSender::trigger_reindex, called by any producer.
TriggerReindex ==
  /\ senders
  /\ Len(queue) < MaxQueue
  /\ send("REINDEX")
  /\ UNCHANGED <<connection, result, fs, vfs, songs, directories, pc, senders, trigger>>

\* CommandSender::exit
Exit ==
  /\ senders
  /\ Len(queue) < MaxQueue
  /\ send("EXIT")
  /\ UNCHANGED <<connection, result, fs, vfs, songs, directories, pc, senders, trigger>>

\* The last CommandSender is dropped: the channel disconnects.  The
\* self-trigger worker holds one for as long as it runs.
DropSenders ==
  /\ senders
  /\ trigger \in {"off", "exited"}
  /\ senders' = FALSE
  /\ h' = [h EXCEPT !.n = 0, !.further = 0]
  /\ UNCHANGED <<connection, result, fs, vfs, songs, directories, pc, queue, trigger>>

\* self_trigger that logs the error of trigger_reindex and goes on to sleep.
SelfTrigger_ErrorLogged ==
  /\ trigger = "trigger"
  /\ Len(queue) < MaxQueue
  /\ send("REINDEX")
  /\ trigger' = "sleep"
  /\ UNCHANGED <<connection, result, fs, vfs, songs, directories, pc, senders>>

\* self_trigger, top of the loop: trigger_reindex, return on error.
SelfTrigger ==
  /\ trigger = "trigger"
  /\ Len(queue) < MaxQueue
  /\ send("REINDEX")
  /\ trigger' = IF pc = "exited" THEN "exited" ELSE "sleep"
  /\ UNCHANGED <<connection, result, fs, vfs, songs, directories, pc, senders>>

\* self_trigger, rest of the loop: read the sleep duration and sleep.
SelfTriggerSleep ==
  /\ trigger = "sleep"
  /\ trigger' = "trigger"
  /\ UNCHANGED <<connection, result, fs, vfs, songs, directories, pc, queue, senders, h>>

\* update_loop: receiver.recv().  Any command received lets the loop go on
\* to the drain; the command itself is not looked at.
Recv ==
  /\ pc = "idle"
  /\ IF queue # <<>>
     THEN /\ queue' = Tail(queue)
          /\ pc' = "drain"
          /\ h' = [h EXCEPT !.exit_taken = @ \/ Head(queue) = "EXIT"]
     ELSE /\ ~senders
          /\ pc' = "exited"
          /\ UNCHANGED <<queue, h>>
  /\ UNCHANGED <<connection, result, fs, vfs, songs, directories, senders, trigger>>

\* The drain left out: update(db) begins right after recv.
Drain_NoCoalesce ==
  /\ pc = "drain"
  /\ pc' = "clean"
  /\ h' = BeginUpdate(h)
  /\ UNCHANGED <<connection, result, fs, vfs, songs, directories, queue, senders, trigger>>

\* The drain with update(db) handed to a thread of its own.
Drain_SpawnScan ==
  /\ pc = "drain"
  /\ IF queue # <<>>
     THEN /\ queue' = Tail(queue)
          /\ pc' = IF Head(queue) = "EXIT" THEN "exited" ELSE "drain"
          /\ h' = [h EXCEPT !.exit_taken = @ \/ Head(queue) = "EXIT"]
     ELSE /\ pc' = IF senders THEN "idle" ELSE "exited"
          /\ h' = IF senders THEN BeginUpdate(h) ELSE h
          /\ UNCHANGED queue
  /\ UNCHANGED <<connection, result, fs, vfs, songs, directories, senders, trigger>>

\* update_loop: one receiver.try_recv() of the drain; on Empty the loop
\* leaves the drain and update(db) begins.
Drain ==
  /\ pc = "drain"
  /\ IF queue # <<>>
     THEN /\ queue' = Tail(queue)
          /\ pc' = IF Head(queue) = "EXIT" THEN "exited" ELSE "drain"
          /\ h' = [h EXCEPT !.exit_taken = @ \/ Head(queue) = "EXIT"]
     ELSE /\ pc' = IF senders THEN "clean" ELSE "exited"
          /\ h' = IF senders THEN BeginUpdate(h) ELSE h
          /\ UNCHANGED queue
  /\ UNCHANGED <<connection, result, fs, vfs, songs, directories, senders, trigger>>

Next ==
  \/ TriggerReindex \/ Exit \/ DropSenders \/ SelfTrigger \/ SelfTriggerSleep
  \/ Recv \/ Drain \/ CleanStep \/ PopulateStep

\* The system init starts: the update loop, the self-trigger worker and the
\* producers.
Spec == Init /\ [][Next]_vars

\* The same system with the self-trigger thread scheduled: its send returns
\* and its sleep ends.
SpecFair == Spec /\ WF_vars(SelfTrigger) /\ WF_vars(SelfTriggerSleep)

\* The same system with the update thread scheduled: recv returns once a
\* command is there, each try_recv of the drain returns, and update(db)
\* returns (the loop is not inside one call for ever).
SpecLive == Spec /\ WF_vars(Recv) /\ WF_vars(Drain) /\ []<>~Scanning

\* ------------------------------------------------- one directory, any tags
\* What the tag reader may return for a file.
TagChoices == {Err, Ok(Tags0), Ok(Tags1), Ok(Tags2), Ok(Tags3), Ok(Tags4)}

EnumerationOrders ==
  { <<F_ms, F_mt, F_mu>>, <<F_ms, F_mu, F_mt>>, <<F_mt, F_ms, F_mu>>,
    <<F_mt, F_mu, F_ms>>, <<F_mu, F_ms, F_mt>>, <<F_mu, F_mt, F_ms>> }

\* The mount root m holds three files with any tags, enumerated in any
\* order, the third item of the enumeration possibly unreadable; the catalog
\* is empty and populate is about to run.
InitAggregate ==
  /\ \E f \in [{F_ms, F_mt, F_mu} -> TagChoices], o \in EnumerationOrders,
        e \in {0, 3} :
       fs = [dirs |-> {P_m}, files |-> f, err_dir |-> P_m, err_at |-> e,
             order |-> o]
  /\ vfs = <<Mount(N_a, P_m)>>
  /\ songs = {}
  /\ directories = {}
  /\ pc = "populate"
  /\ queue = <<>>
  /\ senders = TRUE
  /\ trigger = "off"
  /\ h = [NoHistory EXCEPT !.active = 1]
  /\ result = NoResult
  /\ connection = NoConnection

\* populate over one directory of arbitrary content.
SpecAggregate == InitAggregate /\ [][PopulateStep]_vars

\* ------------------------------------------- read queries over any catalog
MaxCount == 2

P_x == <<"x">>
P_mD == <<"m", "/", "D">>

\* Candidate rows: children of m whose byte order and case-insensitive order
\* differ, artwork inside and outside the mounts, and rows under x and mx,
\* which no mount covers.
DirectoryRows ==
  { [path |-> P_m, parent |-> None, artist |-> None, year |-> None,
     album |-> None, artwork |-> None, date_added |-> 1],
    [path |-> P_mD, parent |-> Some(P_m), artist |-> Some(<<"a">>),
     year |-> Some(1), album |-> Some(<<"a">>),
     artwork |-> Some(<<"m", "/", "D", "/", "F">>), date_added |-> 2],
    [path |-> <<"m", "/", "b">>, parent |-> Some(P_m), artist |-> None,
     year |-> None, album |-> Some(<<"b">>),
     artwork |-> Some(<<"x", "/", "F">>), date_added |-> 1],
    [path |-> P_x, parent |-> None, artist |-> None, year |-> None,
     album |-> Some(<<"a">>), artwork |-> None, date_added |-> 3] }

SongRows ==
  { NewSong(<<"m", "/", "a">>, P_m, Tags1, Some(<<"x", "/", "F">>)),
    NewSong(<<"m", "/", "B">>, P_m, Tags2, None),
    NewSong(<<"m", "/", "D", "/", "s">>, P_mD, Tags1,
            Some(<<"m", "/", "D", "/", "F">>)),
    NewSong(<<"m", "x", "/", "s">>, <<"m", "x">>, Tags3, None) }

QueryVfsUniverse ==
  { <<Mount(N_a, P_m)>>,
    <<Mount(N_a, P_m), Mount(N_b, P_mD)>>,
    <<Mount(N_a, P_mD), Mount(N_b, P_m)>> }

VirtualPaths ==
  { <<>>, N_a, N_b, <<"a", "/", "D">>, <<"b", "/", "D">>, <<"c">> }

Queries == { <<"a">>, <<"d">>, <<"x">>, <<"m", "/">>, <<"m">> }

InitQuery ==
  /\ fs = FsOf(0, 0, 0, 0, 0)
  /\ vfs \in QueryVfsUniverse
  /\ songs \in SUBSET SongRows
  /\ directories \in SUBSET DirectoryRows
  /\ pc = "idle"
  /\ queue = <<>>
  /\ senders = TRUE
  /\ trigger = "off"
  /\ h = NoHistory
  /\ result = NoResult
  /\ connection = NoConnection

Unread ==
  <<connection, fs, vfs, songs, directories, pc, queue, senders, trigger, h>>

Browse ==
  \E virtual_path \in VirtualPaths, fault \in BOOLEAN :
    /\ result' = browse(songs, directories, vfs, virtual_path, fault)
    /\ UNCHANGED Unread

Flatten ==
  \E virtual_path \in VirtualPaths, fault \in BOOLEAN :
    /\ result' = flatten(songs, directories, vfs, virtual_path, fault)
    /\ UNCHANGED Unread

GetRandomAlbums ==
  \E count \in 0..MaxCount, fault \in BOOLEAN :
    \E picked \in RandomPicks(directories, count) :
      /\ result' = get_random_albums(songs, directories, vfs, count, picked, fault)
      /\ UNCHANGED Unread

GetRecentAlbums ==
  \E count \in 0..MaxCount, fault \in BOOLEAN :
    /\ result' = get_recent_albums(songs, directories, vfs, count, fault)
    /\ UNCHANGED Unread

Search ==
  \E query \in Queries, fault \in BOOLEAN :
    /\ result' = search(songs, directories, vfs, query, fault)
    /\ UNCHANGED Unread

\* flatten over catalogs with a directory D, a sibling Dx whose name begins
\* with D's, and songs in each, below D and beside them.
InitFlatten ==
  /\ fs = FsOf(0, 0, 0, 0, 0)
  /\ vfs \in QueryVfsUniverse
  /\ songs \in SUBSET
       { NewSong(<<"m", "/", "D", "/", "s">>, P_mD, Tags1, None),
         NewSong(<<"m", "/", "D", "/", "x", "/", "s">>,
                 <<"m", "/", "D", "/", "x">>, Tags1, None),
         NewSong(<<"m", "/", "D", "x", "/", "s">>, <<"m", "/", "D", "x">>,
                 Tags2, None),
         NewSong(<<"m", "/", "s">>, P_m, Tags2, None) }
  /\ directories =
       { NewDirectory(P_m, None, None, Tags0, 1),
         NewDirectory(P_mD, Some(P_m), None, Tags1, 1),
         NewDirectory(<<"m", "/", "D", "/", "x">>, Some(P_mD), None, Tags1, 1),
         NewDirectory(<<"m", "/", "D", "x">>, Some(P_m), None, Tags2, 1) }
  /\ pc = "idle"
  /\ queue = <<>>
  /\ senders = TRUE
  /\ trigger = "off"
  /\ h = NoHistory
  /\ result = NoResult
  /\ connection = NoConnection

\* get_song of a virtual path of a song: stored, stored under a nested
\* mount, not stored, under no mount.
GetSong ==
  \E virtual_path \in
       { <<"a", "/", "a">>, <<"a", "/", "s">>, <<"a", "/", "D", "/", "s">>,
         <<"b", "/", "D", "/", "s">>, <<"b", "/", "s">>, <<"c", "/", "s">>, <<>> },
     fault \in 0..2 :
    /\ result' = get_song(songs, directories, vfs, virtual_path, fault)
    /\ UNCHANGED Unread

NextQuery ==
  \/ Browse
  \/ Flatten
  \/ GetRandomAlbums
  \/ GetRecentAlbums
  \/ Search

SpecQuery == InitQuery /\ [][NextQuery]_vars

\* get_song over any catalog.
SpecSong == InitQuery /\ [][GetSong]_vars

SpecFlatten == InitFlatten /\ [][Flatten]_vars

\* ------------------------------------- the connection shared by the threads
\* Mutex::lock returns the guard once no thread holds it.
CanLock_Unguarded(c) == TRUE

CanLock(c) == c.holders = {}

\* The rows a flush inserts: the builder's buffer for the table.
FlushBatch(table) ==
  IF table = "songs" THEN OrderBy({r \in SongRows : r.parent = P_m}, "path")
  ELSE OrderBy({r \in DirectoryRows : r.parent = Some(P_m)}, "path")

\* populate is walking the tree, the self-trigger worker is at the top of
\* its loop, no query is running.
InitStore ==
  /\ fs = FsOf(0, 0, 0, 0, 0)
  /\ vfs = <<Mount(N_a, P_m)>>
  /\ songs = {}
  /\ directories = {}
  /\ pc = "populate"
  /\ queue = <<>>
  /\ senders = TRUE
  /\ trigger = "trigger"
  /\ h = NoHistory
  /\ result = NoResult
  /\ connection = NoConnection

\* flush_songs / flush_directories: lock the connection and open the
\* transaction.
FlushLock ==
  /\ pc = "populate"
  /\ CanLock(connection)
  /\ \E table \in {"songs", "directories"} :
       connection' = [holders |-> connection.holders \cup {"update"},
                      table |-> table, batch |-> FlushBatch(table),
                      before |-> IF table = "songs" THEN songs ELSE directories]
  /\ pc' = "flush"
  /\ UNCHANGED <<fs, vfs, songs, directories, queue, senders, trigger, h, result>>

\* One row of the INSERT; when the store fails the transaction is rolled
\* back, the guard dropped and the scan aborted.
FlushInsert ==
  /\ pc = "flush"
  /\ connection.batch # <<>>
  /\ \E fails \in BOOLEAN :
       IF fails
       THEN /\ songs' = IF connection.table = "songs" THEN connection.before
                        ELSE songs
            /\ directories' = IF connection.table = "directories"
                              THEN connection.before ELSE directories
            /\ connection' = [NoConnection EXCEPT
                                !.holders = connection.holders \ {"update"}]
            /\ pc' = "idle"
       ELSE /\ songs' = IF connection.table = "songs"
                        THEN InsertRows(songs, <<Head(connection.batch)>>)
                        ELSE songs
            /\ directories' = IF connection.table = "directories"
                              THEN InsertRows(directories, <<Head(connection.batch)>>)
                              ELSE directories
            /\ connection' = [connection EXCEPT !.batch = Tail(@)]
            /\ pc' = "flush"
  /\ result' = NoResult
  /\ UNCHANGED <<fs, vfs, queue, senders, trigger, h>>

\* The transaction commits and the guard is dropped.
FlushCommit ==
  /\ pc = "flush"
  /\ connection.batch = <<>>
  /\ connection' = [NoConnection EXCEPT
                      !.holders = connection.holders \ {"update"}]
  /\ pc' = "populate"
  /\ UNCHANGED <<fs, vfs, songs, directories, queue, senders, trigger, h, result>>

\* browse: let connection = db.get_connection()
BrowseLock ==
  /\ "query" \notin connection.holders
  /\ CanLock(connection)
  /\ connection' = [connection EXCEPT !.holders = @ \cup {"query"}]
  /\ UNCHANGED <<fs, vfs, songs, directories, pc, queue, senders, trigger, h, result>>

\* browse: the loads, the result, the guard dropped on return.
BrowseRun ==
  /\ "query" \in connection.holders
  /\ result' = browse(songs, directories, vfs, N_a, FALSE)
  /\ connection' = [connection EXCEPT !.holders = @ \ {"query"}]
  /\ UNCHANGED <<fs, vfs, songs, directories, pc, queue, senders, trigger, h>>

\* self_trigger: let connection = db.get_connection()
SettingsLock ==
  /\ trigger = "sleep"
  /\ CanLock(connection)
  /\ connection' = [connection EXCEPT !.holders = @ \cup {"trigger"}]
  /\ trigger' = "settings"
  /\ UNCHANGED <<fs, vfs, songs, directories, pc, queue, senders, h, result>>

\* self_trigger: the settings read, the guard dropped, the sleep.
SettingsRead ==
  /\ trigger = "settings"
  /\ connection' = [connection EXCEPT !.holders = @ \ {"trigger"}]
  /\ trigger' = "trigger"
  /\ UNCHANGED <<fs, vfs, songs, directories, pc, queue, senders, h, result>>

\* The three threads on the one connection, a step at a time.
SpecStore ==
  InitStore
    /\ [][\/ FlushLock \/ FlushInsert \/ FlushCommit
          \/ BrowseLock \/ BrowseRun
          \/ SelfTrigger \/ SettingsLock \/ SettingsRead]_vars

\* ----------------------------------------------- one scan, builder in view
\* The root m holds three songs and the sub directories m/d (two songs and
\* a cover) and m/b (one song); its entries come in one of three orders and
\* one of them may be unreadable.  The catalog is empty and populate is
\* about to run.
InitScan ==
  /\ \E e \in 0..6,
        o \in { <<>>, <<F_ms, P_md, F_mt>>, <<F_mu, F_mt, <<"m", "/", "b">>>> } :
       fs = [dirs |-> {P_m, P_md, <<"m", "/", "b">>},
             files |-> [p \in {F_ms, F_mt, F_mu, F_mdt, F_mdu, F_art,
                               <<"m", "/", "b", "/", "s">>} |->
                          IF p = F_art THEN Err
                          ELSE IF p \in {F_mt, F_mdu} THEN Ok(Tags2)
                          ELSE IF p = F_mu THEN Ok(Tags4)
                          ELSE Ok(Tags1)],
             err_dir |-> P_m, err_at |-> e, order |-> o]
  /\ vfs = <<Mount(N_a, P_m)>>
  /\ songs = {}
  /\ directories = {}
  /\ pc = "populate"
  /\ queue = <<>>
  /\ senders = TRUE
  /\ trigger = "off"
  /\ h = [NoHistory EXCEPT !.active = 1]
  /\ result = NoResult
  /\ connection = NoConnection

\* populate(db), the builder it returned with kept in result.
PopulateScan ==
  /\ pc = "populate"
  /\ \E fail_at \in 0..MaxFaultOp :
     \E b \in {populate(songs, directories, fs, vfs, fail_at)} :
          /\ songs' = b.songs
          /\ directories' = b.directories
          /\ h' = EndUpdate(h, IF b.err THEN "fault" ELSE "ok",
                            b.songs, b.directories)
          /\ result' = [op |-> "populate", arg |-> fail_at, ok |-> ~b.err,
                        err |-> IF b.err THEN "store" ELSE "",
                        loaded |-> <<>>, rows |-> <<b>>]
  /\ pc' = "idle"
  /\ UNCHANGED <<connection, fs, vfs, queue, senders, trigger>>

SpecScan == InitScan /\ [][PopulateScan]_vars

\* ---------------------------------------------------------------- utils.rs
\* Path::extension: what follows the last dot of the file name, None when
\* the file name has no dot or only a leading one.
extension(path) ==
  IF components(path) = <<>> THEN None
  ELSE LET name == file_name(path)
           dots == {i \in 1..Len(name) : name[i] = "."}
           last == CHOOSE i \in dots : \A j \in dots : j <= i
       IN IF dots = {} \/ last = 1 THEN None
          ELSE Some(SubSeq(name, last + 1, Len(name)))

\* str::to_lowercase over the characters of the model.
to_lowercase(str) ==
  [i \in 1..Len(str) |->
     CASE str[i] = "A" -> "a" [] str[i] = "B" -> "b" [] str[i] = "C" -> "c"
       [] str[i] = "F" -> "f" [] str[i] = "G" -> "g" [] str[i] = "J" -> "j"
       [] str[i] = "L" -> "l" [] str[i] = "M" -> "m" [] str[i] = "O" -> "o"
       [] str[i] = "P" -> "p"
       [] OTHER -> str[i]]

\* get_audio_format that compares the extension as it is written.
get_audio_format_CaseSensitive(path) ==
  IF extension(path) = None THEN None
  ELSE CASE extension(path)[1] = <<"f", "l", "a", "c">> -> Some("FLAC")
         [] extension(path)[1] = <<"m", "p", "3">> -> Some("MP3")
         [] extension(path)[1] = <<"m", "4", "a">> -> Some("MP4")
         [] extension(path)[1] = <<"m", "p", "c">> -> Some("MPC")
         [] extension(path)[1] = <<"o", "g", "g">> -> Some("OGG")
         [] OTHER -> None

get_audio_format(path) ==
  IF extension(path) = None THEN None
  ELSE CASE to_lowercase(extension(path)[1]) = <<"f", "l", "a", "c">> -> Some("FLAC")
         [] to_lowercase(extension(path)[1]) = <<"m", "p", "3">> -> Some("MP3")
         [] to_lowercase(extension(path)[1]) = <<"m", "4", "a">> -> Some("MP4")
         [] to_lowercase(extension(path)[1]) = <<"m", "p", "c">> -> Some("MPC")
         [] to_lowercase(extension(path)[1]) = <<"o", "g", "g">> -> Some("OGG")
         [] OTHER -> None

is_image(path) ==
  IF extension(path) = None THEN FALSE
  ELSE CASE to_lowercase(extension(path)[1]) = <<"p", "n", "g">> -> TRUE
         [] to_lowercase(extension(path)[1]) = <<"g", "i", "f">> -> TRUE
         [] to_lowercase(extension(path)[1]) = <<"j", "p", "g">> -> TRUE
         [] to_lowercase(extension(path)[1]) = <<"j", "p", "e", "g">> -> TRUE
         [] to_lowercase(extension(path)[1]) = <<"b", "m", "p">> -> TRUE
         [] OTHER -> FALSE

\* Both classifiers applied once to a path: a directory part (with and
\* without a dot), a stem, a dot or none, and an extension in any case,
\* known or not.
Classify ==
  \E dir \in {<<>>, <<"d", "/">>, <<"d", ".", "m", "p", "3", "/">>},
     stem \in {<<>>, <<"s">>, <<".", "s">>, <<"s", ".", "j", "p", "g">>,
               <<"s", ".", "o", "g", "g">>},
     dot \in {<<>>, <<".">>},
     ext \in {<<>>, <<"f", "l", "a", "c">>, <<"F", "L", "A", "C">>,
              <<"F", "l", "a", "c">>, <<"m", "p", "3">>, <<"M", "P", "3">>,
              <<"m", "4", "a">>, <<"M", "4", "a">>, <<"m", "p", "c">>,
              <<"M", "p", "C">>, <<"o", "g", "g">>, <<"O", "G", "G">>,
              <<"m", "p", "4">>, <<"f", "l", "a">>, <<"o", "g", "g", "x">>,
              <<"p", "n", "g">>, <<"g", "i", "f">>, <<"j", "p", "g">>,
              <<"J", "P", "G">>, <<"j", "p", "e", "g">>, <<"b", "m", "p">>,
              <<"B", "m", "P">>} :
    /\ result = NoResult
    /\ result' =
         [op |-> "classify", arg |-> dir \o stem \o dot \o ext, ok |-> TRUE,
          err |-> "", loaded |-> <<>>,
          rows |-> <<[audio_format |-> get_audio_format(dir \o stem \o dot \o ext),
                      image |-> is_image(dir \o stem \o dot \o ext)]>>]
    /\ UNCHANGED Unread

\* The classifiers of utils.rs over the paths above.
SpecUtils == Init /\ [][Classify]_vars

\* ------------------------------------------------- browse after a reindex
\* A tree with two sub directories and two songs under the root m, whose
\* byte order and case-insensitive order differ.
BrowseFs ==
  [dirs |-> {P_m, P_mD, <<"m", "/", "b">>},
   files |-> [p \in {<<"m", "/", "a">>, <<"m", "/", "B">>,
                     <<"m", "/", "D", "/", "s">>} |->
                IF p = <<"m", "/", "B">> THEN Ok(Tags2) ELSE Ok(Tags1)],
   err_dir |-> P_m, err_at |-> 0, order |-> <<>>]

InitBrowse ==
  /\ fs = BrowseFs
  /\ vfs \in QueryVfsUniverse
  /\ songs = {}
  /\ directories = {}
  /\ pc = "idle"
  /\ queue = <<>>
  /\ senders = TRUE
  /\ trigger = "off"
  /\ h = NoHistory
  /\ result = NoResult
  /\ connection = NoConnection

NextBrowse == UpdateCall \/ CleanStep \/ PopulateStep \/ Browse

SpecBrowse == InitBrowse /\ [][NextBrowse]_vars

\* ------------------------------------------------------------------ claims

\* An update has returned Ok and neither the filesystem nor the mount
\* configuration changed since it began.
ReindexedStatic == pc = "idle" /\ h.result = "ok"

\* C4: on a tree and mount configuration that do not change, an update run
\* right after an update that returned Ok returns Ok too, unless the store
\* itself fails, and leaves both tables with the row counts it found.
C4_IdempotentReindex ==
  (pc = "idle" /\ h.twice /\ h.result \in {"ok", "err"})
    => (h.result = "ok" /\ h.same)

C4_Witness ==
  /\ pc = "idle" /\ h.twice /\ h.result = "ok" /\ h.same
  /\ Cardinality(songs) >= 2 /\ Cardinality(directories) >= 2

\* C5: when clean has returned Ok and the filesystem did not change, no row
\* of songs or directories has a path that is gone or that no mount holds.
C5_CleanRemovesStale ==
  h.cleaned =>
    /\ \A r \in songs : ~IsMissing(fs, vfs, r.path)
    /\ \A r \in directories : ~IsMissing(fs, vfs, r.path)

C5_Witness == h.cleaned /\ h.stale > INDEX_BUILDING_CLEAN_BUFFER_SIZE

\* C6: after an update that returned Ok on a static tree every song row's
\* parent is the path of some directory row.
C6_ParentLinkage ==
  ReindexedStatic => \A r \in songs : r.parent \in Paths(directories)

\* C8: after an update that returned Ok a directory row has a null parent
\* exactly when its path is the real root of a mount point.
C8_NullParentIffMountRoot ==
  ReindexedStatic =>
    \A d \in directories : (d.parent = None) <=> (d.path \in MountRoots(vfs))

\* The distinct non-null values the song rows of directory d supply.
SuppliedAlbums(d) == {r.album : r \in {x \in songs : x.parent = d.path}} \ {None}
SuppliedYears(d) == {r.year : r \in {x \in songs : x.parent = d.path}} \ {None}
SuppliedArtists(d) ==
  {IF IsSome(r.album_artist) THEN r.album_artist ELSE r.artist :
     r \in {x \in songs : x.parent = d.path}} \ {None}

\* The only value of a set of one value, null for any other set.
Collapsed(vals) == IF Cardinality(vals) = 1 THEN CHOOSE v \in vals : TRUE ELSE None

\* C7: an emitted directory row has, for each of album, year and artist, the
\* one value its tagged child songs supply, and null when they supply two
\* distinct values or none, in whatever order they are enumerated.
C7_AggregateCollapse ==
  \A d \in directories :
    /\ d.album = Collapsed(SuppliedAlbums(d))
    /\ d.year = Collapsed(SuppliedYears(d))
    /\ d.artist = Collapsed(SuppliedArtists(d))

C7_Witness ==
  \E d \in directories :
    /\ Cardinality({x \in songs : x.parent = d.path}) = 3
    /\ Cardinality(SuppliedAlbums(d)) = 2 /\ d.album = None
    /\ Cardinality(SuppliedYears(d)) = 1 /\ d.year # None
    /\ Cardinality(SuppliedArtists(d)) = 2 /\ d.artist = None

\* C1: N >= 1 Reindex commands sent during a scan, with no Exit, the channel
\* open and no command after that scan, start exactly one further scan: never
\* a second, the loop does not return, and when it waits again with nothing
\* pending the one scan has run.
C1_Coalescing ==
  h.n >= 1 =>
    /\ h.further <= 1
    /\ pc # "exited"
    /\ (pc = "idle" /\ queue = <<>>) => h.further = 1

C1_Witness ==
  h.n = MaxQueue /\ h.further = 1 /\ pc = "idle" /\ queue = <<>>

\* C2: once the update loop has received an Exit, by recv or by the drain,
\* it starts no scan and does not wait for a command again: it is at most
\* still draining what came with the Exit, on its way to return.
C2_ExitTerminates == h.exit_taken => pc \notin {"clean", "populate", "idle"}

\* C3: at most one scan is in progress.
C3_OneScan == h.active <= 1

C3_Witness == h.active = 1 /\ Len(queue) >= 2 /\ trigger = "sleep"


\* The loaded rows that translate, in the order they were loaded.
Translates(v, f) == real_to_virtual(v, f.row.path).ok
Kept(v, loaded) == SelectSeq(loaded, LAMBDA f : Translates(v, f))
BulkQueries ==
  {"browse", "flatten", "search", "get_random_albums", "get_recent_albums"}
Untouched(row, real) ==
  \A k \in DOMAIN real \ {"path", "artwork"} : row[k] = real[k]

\* C9: every row a bulk query returns has a virtual path under a known mount
\* name; the rows returned are exactly the loaded rows whose path translates,
\* in the order loaded, each with its artwork translated, or null where the
\* artwork does not translate; a row that does not translate never fails the
\* query, which fails only when the store or the translation of its argument
\* does.
C9_VirtualizedResults ==
  result.op \in BulkQueries =>
    IF result.ok
    THEN LET kept == Kept(vfs, result.loaded)
         IN /\ Len(result.rows) = Len(kept)
            /\ \A i \in 1..Len(kept) :
                 LET row == result.rows[i].row
                     real == kept[i].row
                 IN /\ result.rows[i].kind = kept[i].kind
                    /\ Head(components(row.path)) \in MountNames(vfs)
                    /\ virtual_to_real(vfs, row.path).ok
                    /\ row.path = real_to_virtual(vfs, real.path).val
                    /\ row.artwork =
                         IF real.artwork # None
                            /\ real_to_virtual(vfs, real.artwork[1]).ok
                         THEN Some(real_to_virtual(vfs, real.artwork[1]).val)
                         ELSE None
                    /\ Untouched(row, real)
    ELSE \/ result.err = "store"
         \/ /\ result.err = "mount"
            /\ result.op \in {"browse", "flatten"}
            /\ ~virtual_to_real(vfs, result.arg).ok

C9_Witness ==
  /\ result.op \in BulkQueries
  /\ result.ok
  /\ \E i \in 1..Len(result.loaded) : ~Translates(vfs, result.loaded[i])
  /\ \E i \in 1..Len(result.rows) :
       /\ result.rows[i].row.artwork = None
       /\ Kept(vfs, result.loaded)[i].row.artwork # None

SameMount(p, q) == Head(components(p)) = Head(components(q))
NoCaseAscending(p, q) == NoCaseLess(p, q) \/ NoCaseEq(p, q)
Loaded(kind) ==
  {result.loaded[i].row :
     i \in {k \in 1..Len(result.loaded) : result.loaded[k].kind = kind}}
BrowsedChildren ==
  result.op = "browse" /\ result.ok /\ Len(components(result.arg)) # 0

\* C10: browse of a non-empty virtual path returns the children of the
\* translated real directory (the rows whose parent it is), every directory
\* before every song, the directories and the songs each in ascending
\* case-insensitive order of the path they are returned with.
C10_BrowseOrder ==
  BrowsedChildren =>
    LET real == virtual_to_real(vfs, result.arg).val
        rows == result.rows
    IN /\ Loaded("Directory") = {r \in directories : r.parent = Some(real)}
       /\ Loaded("Song") = {r \in songs : r.parent = real}
       /\ \A i, j \in 1..Len(rows) :
            i < j =>
              /\ rows[i].kind = "Song" => rows[j].kind = "Song"
              /\ rows[i].kind = rows[j].kind =>
                   NoCaseAscending(rows[i].row.path, rows[j].row.path)

\* What does hold of C10's order: the rows are loaded in ascending
\* case-insensitive order of the stored real path, and returned in that
\* order, so entries of one group that translate through the same mount are
\* in ascending case-insensitive order of their virtual path too.
C10_StoredOrder ==
  BrowsedChildren =>
    LET loaded == result.loaded
        rows == result.rows
    IN /\ Len(loaded) = Cardinality(Loaded("Directory")) + Cardinality(Loaded("Song"))
       /\ \A i, j \in 1..Len(loaded) :
            i < j =>
              /\ loaded[i].kind = "Song" => loaded[j].kind = "Song"
              /\ loaded[i].kind = loaded[j].kind =>
                   NoCaseAscending(loaded[i].row.path, loaded[j].row.path)
       /\ \A i, j \in 1..Len(rows) :
            (i < j /\ rows[i].kind = rows[j].kind
               /\ SameMount(rows[i].row.path, rows[j].row.path)) =>
              NoCaseAscending(rows[i].row.path, rows[j].row.path)

C10_Witness ==
  /\ result.op = "browse"
  /\ result.ok
  /\ result.arg = N_a
  /\ Len(result.rows) = 4
  /\ result.rows[1].row.path = <<"a", "/", "b">>
  /\ result.rows[2].row.path = <<"a", "/", "D">>
  /\ result.rows[3].row.path = <<"a", "/", "a">>
  /\ result.rows[4].row.path = <<"a", "/", "B">>

\* What get_song may have returned for result.arg over the current catalog.
GetSongReturned ==
  LET real == virtual_to_real(vfs, result.arg)
      known == /\ components(result.arg) # <<>>
               /\ Head(components(result.arg)) \in MountNames(vfs)
      at == IF real.ok THEN {r \in songs : r.path = real.val} ELSE {}
      back == real.ok /\ real_to_virtual(vfs, real.val).ok
  IN /\ ~known => (~result.ok /\ result.err \in {"store", "mount"})
     /\ (known /\ at = {}) => (~result.ok /\ result.err \in {"store", "missing"})
     /\ (known /\ at # {} /\ ~back) =>
          (~result.ok /\ result.err \in {"store", "mapping"})
     /\ (known /\ at # {} /\ back) =>
          \/ ~result.ok /\ result.err = "store"
          \/ /\ result.ok
             /\ Cardinality(at) = 1
             /\ Len(result.rows) = 1
             /\ result.rows[1].kind = "Song"
             /\ \E r \in at :
                  /\ result.rows[1].row.path = real_to_virtual(vfs, r.path).val
                  /\ result.rows[1].row.artwork = VirtualArtwork(vfs, r.artwork)
                  /\ Untouched(result.rows[1].row, r)

\* C11: get_song leaves both tables as they are and fails when the first
\* component of its path is no mount name, when songs has no row at the
\* translated real path, and when that row's path does not translate back;
\* otherwise, the store working, it returns the one song stored at that real
\* path, virtualized.
C11_GetSong ==
  /\ [](result.op = "get_song" => GetSongReturned)
  /\ [][result'.op = "get_song" =>
          (songs' = songs /\ directories' = directories)]_vars

C11_Witness ==
  /\ result.op = "get_song" /\ result.ok
  /\ result.arg = <<"b", "/", "D", "/", "s">>
  /\ result.rows[1].row.path = <<"a", "/", "s">>
  /\ result.rows[1].row.artwork = Some(<<"a", "/", "F">>)

\* get_song fails on an unknown mount and on a missing row.
C11_WitnessErr ==
  /\ result.op = "get_song" /\ ~result.ok /\ result.err = "missing"
  /\ result.arg = <<"a", "/", "s">> /\ songs # {}

\* The last scan to end returned an error.
ScanFailed == h.result \in {"fault", "err"}

\* C12: a scan that fails leaves the update loop waiting for commands, not
\* returned; from there a command received takes the loop to the drain and,
\* the drain finding the channel empty and open, a new scan starts; and
\* populate begins only in the scan whose clean has returned Ok.
C12_FailedScanContinues ==
  [][/\ (Scanning /\ h'.result \in {"fault", "err"}) => pc' = "idle"
     /\ (ScanFailed /\ pc = "idle" /\ queue # <<>> /\ pc' # pc) => pc' = "drain"
     /\ (ScanFailed /\ pc = "drain" /\ queue = <<>> /\ senders /\ pc' # pc) =>
          (pc' = "clean" /\ h'.active = 1 /\ h'.result = "none")
     /\ (pc' = "populate" /\ pc # "populate") => (pc = "clean" /\ h'.cleaned)
    ]_vars

\* A scan is running that began after a scan that failed: it did not begin
\* right after an Ok one, and the rows show that one ran before it.
C12_Witness == pc = "populate" /\ h.cleaned /\ ~h.twice /\ songs # {}

\* C13: each iteration of the self-trigger worker begins with one attempt to
\* enqueue a Reindex and sleeps only after it; once the update loop has
\* returned every send fails (nothing is enqueued), the worker returns at
\* its next attempt, and it gets there.
C13_SelfTrigger ==
  /\ [][/\ (trigger = "trigger" /\ trigger' # trigger) =>
            IF pc = "exited"
            THEN trigger' = "exited" /\ queue' = queue
            ELSE trigger' = "sleep" /\ queue' = Append(queue, "REINDEX")
        /\ (trigger = "sleep" /\ trigger' # trigger) =>
            (trigger' = "trigger" /\ queue' = queue)
        /\ pc = "exited" => (queue' = queue /\ pc' = "exited")
       ]_vars
  /\ (pc = "exited" /\ trigger \in {"trigger", "sleep"}) ~> (trigger = "exited")

C13_Witness ==
  pc = "exited" /\ trigger = "exited" /\ h.exit_taken /\ queue # <<>>

\* The rows of a flushed batch among rows, all of them or none.
WholeBatches(rows) ==
  \A table \in {"songs", "directories"} :
    LET batch == {FlushBatch(table)[i] : i \in 1..Len(FlushBatch(table))}
    IN batch \cap rows \in {{}, batch}

\* C14: at most one thread holds the guard of the connection; a transaction
\* is open, and the settings are read, only under the guard; and what a
\* query can read while it holds the guard, and what browse has loaded,
\* holds every flushed batch whole or not at all.
C14_StoreMutex ==
  /\ Cardinality(connection.holders) <= 1
  /\ pc = "flush" <=> "update" \in connection.holders
  /\ trigger = "settings" <=> "trigger" \in connection.holders
  /\ "query" \in connection.holders => WholeBatches(songs \cup directories)
  /\ (result.op = "browse" /\ result.ok) =>
       WholeBatches({result.loaded[i].row : i \in 1..Len(result.loaded)})

\* browse has returned one batch whole and nothing of the other, and a
\* flush has the guard, its transaction open, while the self-trigger worker
\* waits for the connection.
C14_Witness ==
  /\ result.op = "browse" /\ result.ok /\ Len(result.loaded) = 2
  /\ pc = "flush" /\ connection.holders = {"update"}
  /\ Len(connection.batch) = 2
  /\ trigger = "sleep"

\* C15: populate only adds rows (no row of either table is removed or
\* changed by it), clean only removes rows, and no other step, the read
\* queries included, changes either table.
C15_RowLifecycle ==
  [][/\ pc = "populate" => (songs \subseteq songs' /\ directories \subseteq directories')
     /\ pc = "clean" => (songs' \subseteq songs /\ directories' \subseteq directories)
     /\ pc \notin {"clean", "populate"} =>
          (songs' = songs /\ directories' = directories)
    ]_vars

\* What does hold of C15: clean only removes rows, the other steps and the
\* queries change no table, and populate leaves every row whose path it
\* does not insert again; the row of a path it inserts again is replaced.
C15_ReplacedOnly ==
  [][/\ pc = "populate" =>
          /\ \A r \in songs : r \in songs' \/ r.path \in Paths(songs' \ songs)
          /\ \A r \in directories :
               r \in directories' \/ r.path \in Paths(directories' \ directories)
     /\ pc = "clean" => (songs' \subseteq songs /\ directories' \subseteq directories)
     /\ pc \notin {"clean", "populate"} =>
          (songs' = songs /\ directories' = directories)
    ]_vars

\* The column holds a value that contains q (as LIKE %q% finds it).
Contains(column, q) ==
  column # None /\ Like(column[1], <<"%">> \o q \o <<"%">>)

MatchingSongs(q) ==
  {r \in songs :
     /\ \/ Contains(Some(r.path), q) \/ Contains(r.title, q)
        \/ Contains(r.album, q) \/ Contains(r.artist, q)
        \/ Contains(r.album_artist, q)
     /\ ~Contains(Some(r.parent), q)}

\* C16: search(q) loads, and returns virtualized, exactly the directories
\* whose path contains q and whose parent does not (a null parent contains
\* nothing, so mount roots are among them), and the songs one of whose path,
\* title, album, artist, album_artist contains q and whose parent does not.
C16_Search ==
  (result.op = "search" /\ result.ok) =>
    /\ Loaded("Directory") =
         {r \in directories :
            Contains(Some(r.path), result.arg) /\ ~Contains(r.parent, result.arg)}
    /\ Loaded("Song") = MatchingSongs(result.arg)
    /\ result.rows = VirtualizeAll(vfs, result.loaded)

\* What does hold of C16: the directories returned are those with a
\* non-null parent that does not contain q and a path that does; a
\* directory row with a null parent is never returned.
C16_SearchSkipsRoots ==
  (result.op = "search" /\ result.ok) =>
    /\ Loaded("Directory") =
         {r \in directories :
            /\ r.parent # None
            /\ Contains(Some(r.path), result.arg)
            /\ ~Contains(r.parent, result.arg)}
    /\ Loaded("Song") = MatchingSongs(result.arg)
    /\ result.rows = VirtualizeAll(vfs, result.loaded)

\* search("m") over a catalog holding the mount root m, its child m/D and
\* songs under both returns nothing: the root has a null parent, and the
\* parent of every other row contains m.
C16_Witness ==
  /\ result.op = "search" /\ result.ok /\ result.arg = <<"m">>
  /\ vfs = <<Mount(N_a, P_m)>>
  /\ \E r \in directories : r.path = P_m /\ r.parent = None
  /\ \E r \in directories : r.path = P_mD
  /\ \E r \in songs : r.parent = P_m
  /\ result.loaded = <<>>

\* The upper-case form of a character of the extension names.
Upper(c) ==
  CASE c = "a" -> "A" [] c = "b" -> "B" [] c = "c" -> "C" [] c = "f" -> "F"
    [] c = "g" -> "G" [] c = "j" -> "J" [] c = "l" -> "L" [] c = "m" -> "M"
    [] c = "o" -> "O" [] c = "p" -> "P" [] OTHER -> c

\* The path's file name ends in a dot, not its first character, followed by
\* name written in any mix of cases and holding no dot.
HasExtension(path, name) ==
  /\ components(path) # <<>>
  /\ LET n == components(path)[Len(components(path))]
         k == Len(n) - Len(name)
     IN /\ k >= 2
        /\ n[k] = "."
        /\ \A i \in 1..Len(name) : n[k + i] \in {name[i], Upper(name[i])}

AudioNames ==
  [FLAC |-> <<"f", "l", "a", "c">>, MP3 |-> <<"m", "p", "3">>,
   MP4 |-> <<"m", "4", "a">>, MPC |-> <<"m", "p", "c">>,
   OGG |-> <<"o", "g", "g">>]

C17_WitnessNone ==
  /\ result.op = "classify"
  /\ result.arg \in {<<".", "m", "p", "3">>, <<"d", "/", "s", ".", "J", "P", "G">>}
  /\ result.rows[1].audio_format = None

\* The entries of the root enumerated before the unreadable one.
SeenInRoot ==
  LET items == read_dir(fs, P_m)
  IN {items[i].val :
        i \in {k \in 1..Len(items) : \A j \in 1..k : items[j].ok}}

\* C20: populate over a root one of whose entries cannot be read returns
\* Ok when the store does; the catalog then holds the root's row with the
\* aggregates of the songs enumerated before that entry, those songs, and
\* the whole of every sub directory enumerated before it; of the entries
\* after it nothing is catalogued.
C20_EntryReadError ==
  (result.op = "populate" /\ result.arg = 0) =>
    /\ result.ok
    /\ Paths(directories) = {P_m} \cup (SeenInRoot \cap fs.dirs)
    /\ Paths(songs) =
         {f \in DOMAIN fs.files :
            /\ fs.files[f].ok
            /\ f \in SeenInRoot \/ parent_of(f) \in SeenInRoot}
    /\ \A d \in directories :
         /\ d.album = Collapsed(SuppliedAlbums(d))
         /\ d.year = Collapsed(SuppliedYears(d))
         /\ d.artist = Collapsed(SuppliedArtists(d))

\* The third of the five entries of m is unreadable: the song m/s and the
\* directory m/d before it are catalogued, m/t, m/b and m/u after it are not.
C20_Witness ==
  /\ result.op = "populate" /\ result.ok
  /\ fs.err_at = 3
  /\ Paths(directories) = {P_m, P_md}
  /\ Paths(songs) = {F_ms, F_mdt, F_mdu}
  /\ \E d \in directories : d.path = P_m /\ d.album = Some(<<"a">>)

RECURSIVE Concat(_)
\* The rows of a sequence of batches, in order.
Concat(batches) ==
  IF batches = <<>> THEN <<>> ELSE Head(batches) \o Concat(Tail(batches))

Rows(seq) == {seq[i] : i \in 1..Len(seq)}

\* Every batch holds at most the buffer size, every batch but the last one
\* exactly that.
FullBatches(batches) ==
  \A i \in 1..Len(batches) :
    /\ Len(batches[i]) <= INDEX_BUILDING_INSERT_BUFFER_SIZE
    /\ i < Len(batches) => Len(batches[i]) = INDEX_BUILDING_INSERT_BUFFER_SIZE

\* C18: however a scan ends, neither buffer ever held more rows than the
\* buffer size; what was flushed before the end went in whole batches of
\* that size, each in one transaction; every row pushed is in a flushed
\* batch or still in its buffer, once; the tables hold the flushed batches
\* and nothing of a batch whose flush failed; and a failed flush is the last
\* thing the scan did.
C18_BoundedBuffers ==
  result.op = "populate" =>
    \A b \in {result.rows[1]} :
      /\ b.peak <= INDEX_BUILDING_INSERT_BUFFER_SIZE
      /\ Len(b.new_songs) <= INDEX_BUILDING_INSERT_BUFFER_SIZE
      /\ Len(b.new_directories) <= INDEX_BUILDING_INSERT_BUFFER_SIZE
      /\ FullBatches(b.flushed_songs)
      /\ FullBatches(b.flushed_directories)
      /\ b.pushed_songs = Concat(b.flushed_songs) \o b.new_songs
      /\ b.pushed_directories = Concat(b.flushed_directories) \o b.new_directories
      /\ songs = Rows(Concat(b.flushed_songs))
      /\ directories = Rows(Concat(b.flushed_directories))
      /\ ~result.ok => b.ops = b.fail_at

\* A push found its buffer full and the flush failed, after an earlier
\* flush had gone through: the full batch is still in the buffer and not in
\* the table.
C18_Witness ==
  /\ result.op = "populate" /\ ~result.ok
  /\ Len(result.rows[1].new_songs) = INDEX_BUILDING_INSERT_BUFFER_SIZE
  /\ Len(result.rows[1].flushed_songs) >= 1
  /\ songs # {}
  /\ Rows(result.rows[1].new_songs) \cap songs = {}

\* C19: when populate returns Ok both buffers are empty, and the rows
\* flushed, by the flushes of the pushes and the two at the end, are the
\* rows pushed, each once and in the order pushed, all of them in the store.
C19_FinalFlush ==
  (result.op = "populate" /\ result.ok) =>
    \A b \in {result.rows[1]} :
      /\ b.new_songs = <<>>
      /\ b.new_directories = <<>>
      /\ Concat(b.flushed_songs) = b.pushed_songs
      /\ Concat(b.flushed_directories) = b.pushed_directories
      /\ songs = Rows(b.pushed_songs)
      /\ directories = Rows(b.pushed_directories)
      /\ Cardinality(songs) = Len(b.pushed_songs)
      /\ Cardinality(directories) = Len(b.pushed_directories)

C19_Witness ==
  /\ result.op = "populate" /\ result.ok
  /\ Len(result.rows[1].pushed_songs) = 6
  /\ Len(result.rows[1].pushed_directories) = 3
  /\ Len(result.rows[1].flushed_songs) > 1
  /\ Len(result.rows[1].flushed_directories) > 1

\* A command was enqueued and no scan has started since: it is still in the
\* channel, or the loop has received one and is in its drain.
Requested == queue # <<>> \/ pc = "drain"

\* The drain has just seen the channel empty and update(db) has begun.
ScanStarted == pc = "clean" /\ queue = <<>>

\* C21: if no Exit is ever sent and a sender stays alive, every Reindex
\* enqueued is followed by a scan that starts after it was enqueued.
C21_RequestServed ==
  ([]~h.exit_sent /\ []senders) => (Requested ~> ScanStarted)

\* The loop is in its drain with a Reindex waiting that the next try_recv
\* will discard, no Exit sent and the senders alive.
C21_Witness ==
  /\ pc = "drain" /\ queue # <<>> /\ Head(queue) = "REINDEX"
  /\ ~h.exit_sent /\ senders

\* What holds instead: the requests are served whenever the drain ends each
\* time it is entered.
C21_ServedIfDrainEnds ==
  ([]~h.exit_sent /\ []senders /\ []<>(pc # "drain"))
    => (Requested ~> ScanStarted)

\* The songs flatten returned: the rows loaded that virtualize_song kept.
FlattenedSongs ==
  {r \in Loaded("Song") : virtualize_song(vfs, r) # None}

\* C22: every song flatten returns for a non-empty virtual path is beneath
\* the real directory the path translates to, component by component.
C22_FlattenBeneath ==
  (result.op = "flatten" /\ result.ok /\ Len(components(result.arg)) # 0) =>
    \A r \in FlattenedSongs :
      strip_prefix(r.path, virtual_to_real(vfs, result.arg).val).ok

\* flatten of a/D, a mounted on m, returned the song of the sibling m/Dx.
C22_Witness ==
  /\ result.op = "flatten" /\ result.ok
  /\ result.arg = <<"a", "/", "D">>
  /\ vfs = <<Mount(N_a, P_m)>>
  /\ \E i \in 1..Len(result.rows) :
       result.rows[i].row.path = <<"a", "/", "D", "x", "/", "s">>

\* C23: the song a successful get_song returns has the virtual path that was
\* asked for, whatever the mounts.
C23_GetSongRoundTrip ==
  (result.op = "get_song" /\ result.ok) =>
    result.rows[1].row.path = result.arg

\* b is mounted on m/D inside a's m: get_song(b/s) found m/D/s and returned
\* it as a/D/s.
C23_Witness ==
  /\ result.op = "get_song" /\ result.ok
  /\ vfs = <<Mount(N_a, P_m), Mount(N_b, P_mD)>>
  /\ result.arg = <<"b", "/", "s">>
  /\ result.rows[1].row.path = <<"a", "/", "D", "/", "s">>

\* What holds instead: the round trip is the identity when no mount root
\* lies at or beneath another.
C23_RoundTripApart ==
  (/\ result.op = "get_song" /\ result.ok
   /\ \A i, j \in 1..Len(vfs) :
        i # j => ~strip_prefix(vfs[i].target, vfs[j].target).ok) =>
    result.rows[1].row.path = result.arg

====
